---- MODULE Spec2Model ----
(***************************************************************************)
(* Model of src/app.py: the SQS-triggered handler that stores one contact  *)
(* message per invocation in a DynamoDB table.                             *)
(*                                                                         *)
(* An invocation is a process with five positions: idle, running (after    *)
(* "Received event" was logged), put (the Item is built and put_item is    *)
(* about to be called), answered (the table has handled the request and    *)
(* the handler has not yet gone on) and done.  Invocations run in separate *)
(* execution contexts and share only the table and the wall clock; the     *)
(* logger, tracer and metrics calls of an invocation touch nothing shared, *)
(* so the calls that follow one another without the table in between are   *)
(* one step.                                                               *)
(***************************************************************************)
EXTENDS Integers, Sequences, FiniteSets, TLC

(***************************************************************************)
(* Bounds of the model.                                                    *)
(***************************************************************************)
NumInvocations == 2
MaxRuns == 2
MaxClock == 2

(***************************************************************************)
(* Program constants.                                                      *)
(***************************************************************************)
\* src/app.py:25, the two factors of (30 * 86400)
RetentionDays == 30
SecondsPerDay == 86400
\* Clock ticks per second: time.time() is fractional, int() truncates it.
TicksPerSecond == 2

Invocations == 1 .. NumInvocations

(***************************************************************************)
(* JSON texts.  A text is the sequence of its tokens, each token carrying  *)
(* the characters it is written with, so that a position in the token      *)
(* sequence is a character offset in the text.  White space is a token of  *)
(* its own (one space; the texts hold no line break), strings hold no      *)
(* escape, numbers are non-negative integers of which no two are adjacent, *)
(* and a junk token is a run of characters that starts no JSON value.      *)
(***************************************************************************)
P(c)    == [k |-> "punct", s |-> c]
S(x)    == [k |-> "str", s |-> x]
N(x)    == [k |-> "num", s |-> x]
Null    == [k |-> "null", s |-> "null"]
Junk(x) == [k |-> "junk", s |-> x]
W       == [k |-> "ws", s |-> " "]

\* the characters a token is written with
TokenText(t) ==
    CASE t.k = "str" -> "\"" \o t.s \o "\""
      [] t.k = "num" -> ToString(t.s)
      [] OTHER       -> t.s

\* the character offset at which token i starts; Offset(toks, Len(toks) + 1)
\* is the length of the text
RECURSIVE Offset(_, _)
Offset(toks, i) ==
    IF i <= 1 THEN 0
    ELSE Offset(toks, i - 1) + Len(TokenText(toks[i - 1]))

\* Python values produced by json.loads
PyStr(x)  == [t |-> "str", v |-> x]
PyInt(x)  == [t |-> "int", v |-> x]
PyNone    == [t |-> "NoneType", v |-> "None"]
PyList(x) == [t |-> "list", v |-> x]
PyDict(x) == [t |-> "dict", v |-> x]

IsPunct(toks, i, c) == i <= Len(toks) /\ toks[i].k = "punct" /\ toks[i].s = c
IsStr(toks, i)      == i <= Len(toks) /\ toks[i].k = "str"

\* the decoder's white-space skip: the first index from i on that holds no
\* white space
RECURSIVE SkipWs(_, _)
SkipWs(toks, i) ==
    IF i <= Len(toks) /\ toks[i].k = "ws" THEN SkipWs(toks, i + 1) ELSE i

\* a scan that succeeded with value v and stopped before token `next`, and
\* one that failed with message msg at token `at`
Scanned(v, next) == [ok |-> TRUE, v |-> v, next |-> next, msg |-> "", at |-> 0]
ScanError(msg, at) == [ok |-> FALSE, v |-> PyNone, next |-> 0, msg |-> msg, at |-> at]

\* dict assignment d[key] = val: a repeated key keeps the last value
DictPut(d, key, val) ==
    [x \in DOMAIN d \cup {key} |-> IF x = key THEN val ELSE d[x]]

RECURSIVE ParseValue(_, _)
RECURSIVE ParsePairs(_, _, _)
RECURSIVE ParseItems(_, _, _)

\* json.decoder.JSONObject from the key at token i on: the key, ":", the
\* value, then "}" or "," and the next key
ParsePairs(toks, i, acc) ==
    LET c == SkipWs(toks, i + 1) IN
    IF ~IsPunct(toks, c, ":") THEN ScanError("Expecting ':' delimiter", c)
    ELSE LET r == ParseValue(toks, SkipWs(toks, c + 1)) IN
         IF ~r.ok THEN r
         ELSE LET d == DictPut(acc, toks[i].s, r.v)
                  e == SkipWs(toks, r.next)
              IN  IF IsPunct(toks, e, "}") THEN Scanned(PyDict(d), e + 1)
                  ELSE IF ~IsPunct(toks, e, ",")
                  THEN ScanError("Expecting ',' delimiter", e)
                  ELSE LET k == SkipWs(toks, e + 1) IN
                       IF IsStr(toks, k) THEN ParsePairs(toks, k, d)
                       ELSE ScanError(
                              "Expecting property name enclosed in double quotes", k)

\* json.decoder.JSONArray from the value at token i on: the value, then "]"
\* or "," and the next value
ParseItems(toks, i, acc) ==
    LET r == ParseValue(toks, i) IN
    IF ~r.ok THEN r
    ELSE LET l == Append(acc, r.v)
             e == SkipWs(toks, r.next)
         IN  IF IsPunct(toks, e, "]") THEN Scanned(PyList(l), e + 1)
             ELSE IF ~IsPunct(toks, e, ",")
             THEN ScanError("Expecting ',' delimiter", e)
             ELSE ParseItems(toks, SkipWs(toks, e + 1), l)

\* json.scanner's scan_once at token i
ParseValue(toks, i) ==
    IF i > Len(toks) THEN ScanError("Expecting value", i)
    ELSE CASE toks[i].k = "str"  -> Scanned(PyStr(toks[i].s), i + 1)
           [] toks[i].k = "num"  -> Scanned(PyInt(toks[i].s), i + 1)
           [] toks[i].k = "null" -> Scanned(PyNone, i + 1)
           [] IsPunct(toks, i, "{") ->
                LET k == SkipWs(toks, i + 1) IN
                IF IsPunct(toks, k, "}") THEN Scanned(PyDict(<<>>), k + 1)
                ELSE IF IsStr(toks, k) THEN ParsePairs(toks, k, <<>>)
                ELSE ScanError(
                       "Expecting property name enclosed in double quotes", k)
           [] IsPunct(toks, i, "[") ->
                LET k == SkipWs(toks, i + 1) IN
                IF IsPunct(toks, k, "]") THEN Scanned(PyList(<<>>), k + 1)
                ELSE ParseItems(toks, k, <<>>)
           [] OTHER -> ScanError("Expecting value", i)

\* Exceptions: the type, the text str(e) gives, and the keys or parameters
\* that text names
Exc(type, msg, names) == [type |-> type, msg |-> msg, names |-> names]
NoExc          == Exc("", "", {})
KeyError(key)  == Exc("KeyError", "'" \o key \o "'", {key})

\* json.JSONDecodeError(msg, doc, pos) for a text of one line
JSONDecodeError(msg, pos) ==
    Exc("JSONDecodeError",
        msg \o ": line 1 column " \o ToString(pos + 1)
            \o " (char " \o ToString(pos) \o ")",
        {})

\* A body is a str or a bytes object holding a text, or an object of some
\* other type (None, a dict, a list, an int).
StrBody(toks)    == [type |-> "str", toks |-> toks]
BytesBody(toks)  == [type |-> "bytes", toks |-> toks]
OtherBody(type)  == [type |-> type, toks |-> <<>>]
NonStrBody       == OtherBody("NoneType")

\* json.loads(body): the value, or the exception raised.  A str is decoded
\* as it is and bytes after their UTF-8 decoding; anything else is refused
\* with a TypeError that names its type.  The decoder skips white space,
\* scans one value, skips white space and expects the end of the text.
json_loads(body) ==
    IF body.type \notin {"str", "bytes", "bytearray"}
    THEN [ok |-> FALSE, v |-> PyNone,
          exc |-> Exc("TypeError",
                      "the JSON object must be str, bytes or bytearray, not "
                          \o body.type, {})]
    ELSE LET r == ParseValue(body.toks, SkipWs(body.toks, 1)) IN
         IF ~r.ok
         THEN [ok |-> FALSE, v |-> PyNone,
               exc |-> JSONDecodeError(r.msg, Offset(body.toks, r.at))]
         ELSE LET e == SkipWs(body.toks, r.next) IN
              IF e = Len(body.toks) + 1
              THEN [ok |-> TRUE, v |-> r.v, exc |-> NoExc]
              ELSE [ok |-> FALSE, v |-> PyNone,
                    exc |-> JSONDecodeError("Extra data", Offset(body.toks, e))]

(***************************************************************************)
(* Invocation events.  An event may carry a top-level body, a Records      *)
(* list, both or neither; a record may carry a body or not.                *)
(***************************************************************************)
Record(body)  == [hasBody |-> TRUE, body |-> body]
RecordNoBody  == [hasBody |-> FALSE, body |-> NonStrBody]
QueueEvent(records) ==
    [hasBody |-> FALSE, body |-> NonStrBody, hasRecords |-> TRUE, Records |-> records]
DirectEvent(body) ==
    [hasBody |-> TRUE, body |-> body, hasRecords |-> FALSE, Records |-> <<>>]
BothEvent(body, records) ==
    [hasBody |-> TRUE, body |-> body, hasRecords |-> TRUE, Records |-> records]
EmptyEvent ==
    [hasBody |-> FALSE, body |-> NonStrBody, hasRecords |-> FALSE, Records |-> <<>>]

\* A slip in the subscript: the last record is read instead of the first.
GetBody_LastRecord(event) ==
    IF ~event.hasRecords
    THEN [ok |-> FALSE, body |-> NonStrBody, exc |-> KeyError("Records")]
    ELSE IF Len(event.Records) = 0
    THEN [ok |-> FALSE, body |-> NonStrBody,
          exc |-> Exc("IndexError", "list index out of range", {})]
    ELSE IF ~event.Records[Len(event.Records)].hasBody
    THEN [ok |-> FALSE, body |-> NonStrBody, exc |-> KeyError("body")]
    ELSE [ok |-> TRUE, body |-> event.Records[Len(event.Records)].body, exc |-> NoExc]

\* body = event['Records'][0]['body']                          (src/app.py:37)
GetBody(event) ==
    IF ~event.hasRecords
    THEN [ok |-> FALSE, body |-> NonStrBody, exc |-> KeyError("Records")]
    ELSE IF Len(event.Records) = 0
    THEN [ok |-> FALSE, body |-> NonStrBody,
          exc |-> Exc("IndexError", "list index out of range", {})]
    ELSE IF ~event.Records[1].hasBody
    THEN [ok |-> FALSE, body |-> NonStrBody, exc |-> KeyError("body")]
    ELSE [ok |-> TRUE, body |-> event.Records[1].body, exc |-> NoExc]

(***************************************************************************)
(* str(int(...)) and the table's reading of an N attribute.                *)
(***************************************************************************)
DigitChar == <<"0", "1", "2", "3", "4", "5", "6", "7", "8", "9">>

RECURSIVE IntToStr(_)
IntToStr(n) ==
    IF n < 10 THEN <<DigitChar[n + 1]>>
    ELSE Append(IntToStr(n \div 10), DigitChar[(n % 10) + 1])

DigitValue(c) == (CHOOSE d \in 1 .. 10 : DigitChar[d] = c) - 1

RECURSIVE StrToInt(_)
StrToInt(s) ==
    IF Len(s) = 0 THEN 0
    ELSE 10 * StrToInt(SubSeq(s, 1, Len(s) - 1)) + DigitValue(s[Len(s)])

\* int(time.time()) for a clock that counts ticks
IntTime(ticks) == ticks \div TicksPerSecond

\* The int() around time.time() forgotten: the clock is not truncated.
TTLText_NoTruncation(ticks) == IntToStr(ticks + (RetentionDays * SecondsPerDay))

\* str(int(time.time()) + (30 * 86400))                        (src/app.py:25)
TTLText(ticks) == IntToStr(IntTime(ticks) + (RetentionDays * SecondsPerDay))

\* message.get(key, "") in place of message[key]
Subscript_Get(message, key) ==
    IF message.t = "dict"
    THEN [ok |-> TRUE,
          v |-> IF key \in DOMAIN message.v THEN message.v[key] ELSE PyStr(""),
          exc |-> NoExc]
    ELSE [ok |-> FALSE, v |-> PyNone,
          exc |-> Exc("TypeError", "'" \o message.t \o "' object is not subscriptable", {})]

(***************************************************************************)
(* message[key] for the value json.loads returned.                         *)
(***************************************************************************)
Subscript(message, key) ==
    CASE message.t = "dict" ->
           IF key \in DOMAIN message.v
           THEN [ok |-> TRUE, v |-> message.v[key], exc |-> NoExc]
           ELSE [ok |-> FALSE, v |-> PyNone, exc |-> KeyError(key)]
      [] message.t = "list" ->
           [ok |-> FALSE, v |-> PyNone,
            exc |-> Exc("TypeError", "list indices must be integers or slices, not str", {})]
      [] message.t = "str" ->
           [ok |-> FALSE, v |-> PyNone,
            exc |-> Exc("TypeError", "string indices must be integers, not 'str'", {})]
      [] OTHER ->
           [ok |-> FALSE, v |-> PyNone,
            exc |-> Exc("TypeError", "'" \o message.t \o "' object is not subscriptable", {})]

NoItem == [ID |-> PyNone, Email |-> PyNone, Message |-> PyNone, Name |-> PyNone,
           TTL |-> PyNone]

\* Name and Message filled from each other's field.
BuildItem_SwapNameMessage(message, id, ticks) ==
    LET e == Subscript(message, "email")
        m == Subscript(message, "message")
        n == Subscript(message, "name")
    IN  IF ~e.ok THEN [ok |-> FALSE, item |-> NoItem, exc |-> e.exc]
        ELSE IF ~m.ok THEN [ok |-> FALSE, item |-> NoItem, exc |-> m.exc]
        ELSE IF ~n.ok THEN [ok |-> FALSE, item |-> NoItem, exc |-> n.exc]
        ELSE [ok |-> TRUE,
              item |-> [ID |-> PyStr(id), Email |-> e.v, Message |-> n.v,
                        Name |-> m.v, TTL |-> PyStr(TTLText(ticks))],
              exc |-> NoExc]

\* The Item dict of put_item, built in source order: uuid4, then email,
\* message, name, then the clock.                             (src/app.py:20-26)
BuildItem(message, id, ticks) ==
    LET e == Subscript(message, "email")
        m == Subscript(message, "message")
        n == Subscript(message, "name")
    IN  IF ~e.ok THEN [ok |-> FALSE, item |-> NoItem, exc |-> e.exc]
        ELSE IF ~m.ok THEN [ok |-> FALSE, item |-> NoItem, exc |-> m.exc]
        ELSE IF ~n.ok THEN [ok |-> FALSE, item |-> NoItem, exc |-> n.exc]
        ELSE [ok |-> TRUE,
              item |-> [ID |-> PyStr(id), Email |-> e.v, Message |-> m.v,
                        Name |-> n.v, TTL |-> PyStr(TTLText(ticks))],
              exc |-> NoExc]

(***************************************************************************)
(* client.put_item: the client's parameter check, then the table.          *)
(***************************************************************************)
\* The table the test creates: HASH key ID, RANGE key Email.
ExistingTable == "test-table"
KeyAttributes == <<"ID", "Email">>
ItemOrder     == <<"ID", "Email", "Message", "Name", "TTL">>
AttrType(a)   == IF a = "TTL" THEN "N" ELSE "S"

\* repr() of the values the inputs hold
Repr(val) ==
    CASE val.t = "int"  -> ToString(val.v)
      [] val.t = "list" -> "[]"
      [] val.t = "dict" -> "{}"
      [] OTHER          -> "None"

InvalidType(path, val) ==
    "Invalid type for parameter " \o path \o ", value: " \o Repr(val)
        \o ", type: <class '" \o val.t \o "'>, valid types: <class 'str'>"

ParamPath(a) == "Item." \o a \o "." \o AttrType(a)

\* the attributes whose value is not a str, in the order of the Item dict
RECURSIVE BadAttrs(_, _)
BadAttrs(item, k) ==
    IF k > Len(ItemOrder) THEN <<>>
    ELSE (IF item[ItemOrder[k]].t # "str" THEN <<ItemOrder[k]>> ELSE <<>>)
            \o BadAttrs(item, k + 1)

RECURSIVE ReportLines(_, _)
ReportLines(item, bad) ==
    IF Len(bad) = 0 THEN ""
    ELSE "\n" \o InvalidType(ParamPath(bad[1]), item[bad[1]])
            \o ReportLines(item, Tail(bad))

\* botocore's validation of TableName and Item before any request is sent
ParamValidation(table_name, item) ==
    LET bad   == BadAttrs(item, 1)
        tbad  == table_name.t # "str"
        tline == IF tbad THEN "\n" \o InvalidType("TableName", table_name) ELSE ""
    IN  IF ~tbad /\ Len(bad) = 0 THEN NoExc
        ELSE Exc("ParamValidationError",
                 "Parameter validation failed:" \o tline \o ReportLines(item, bad),
                 {ParamPath(bad[k]) : k \in 1 .. Len(bad)}
                     \cup (IF tbad THEN {"TableName"} ELSE {}))

\* a stored row: the S attributes as strings, the N attribute as a number
RowOf(item) ==
    [ID |-> item.ID.v, Email |-> item.Email.v, Message |-> item.Message.v,
     Name |-> item.Name.v, TTL |-> StrToInt(item.TTL.v)]

SameKey(r, q) == r.ID = q.ID /\ r.Email = q.Email

\* the table's own check: a key attribute may not be the empty string
EmptyKeys(item) == {KeyAttributes[k] : k \in {j \in 1 .. Len(KeyAttributes) :
                                                 item[KeyAttributes[j]].v = ""}}

\* put_item(TableName, Item) against the rows `rows`: the rows after the
\* call and the exception it raised, if any.  An insert replaces the row of
\* the same (ID, Email) key.
put_item(table_name, item, reachable, rows) ==
    LET pv == ParamValidation(table_name, item) IN
    IF pv.type # "" THEN [ok |-> FALSE, rows |-> rows, exc |-> pv]
    ELSE IF ~reachable
    THEN [ok |-> FALSE, rows |-> rows,
          exc |-> Exc("EndpointConnectionError", "Could not connect to the endpoint URL", {})]
    ELSE IF table_name.v # ExistingTable
    THEN [ok |-> FALSE, rows |-> rows,
          exc |-> Exc("ResourceNotFoundException", "Requested resource not found", {})]
    ELSE IF EmptyKeys(item) # {}
    THEN [ok |-> FALSE, rows |-> rows,
          exc |-> Exc("ValidationException",
                      "One or more parameter values are not valid. The AttributeValue for a key attribute cannot contain an empty string value.",
                      EmptyKeys(item))]
    ELSE [ok |-> TRUE,
          rows |-> {q \in rows : ~SameKey(q, RowOf(item))} \cup {RowOf(item)},
          exc |-> NoExc]

(***************************************************************************)
(* Inputs: the bodies and events the tests use, and their neighbours.      *)
(***************************************************************************)
\* "key": value as json.dumps writes it, and as the tests' fixture does
Member(key, vtoks) == <<S(key), P(":"), W>> \o vtoks
CompactMember(key, vtoks) == <<S(key), P(":")>> \o vtoks

RECURSIVE JoinMembers(_, _)
JoinMembers(ms, sep) ==
    IF Len(ms) = 0 THEN <<>>
    ELSE IF Len(ms) = 1 THEN ms[1]
    ELSE ms[1] \o sep \o JoinMembers(Tail(ms), sep)

\* json.dumps of a flat object: ", " between the members, ": " after a key
ObjectText(ms) == <<P("{")>> \o JoinMembers(ms, <<P(","), W>>) \o <<P("}")>>

\* the same object written without white space
CompactText(ms) == <<P("{")>> \o JoinMembers(ms, <<P(",")>>) \o <<P("}")>>

\* the body of the fixture's first record    (src/tests/unit/test_handler.py:24)
ValidText ==
    CompactText(<<CompactMember("name", <<S("test-name")>>),
                  CompactMember("email", <<S("test@gmail.com")>>),
                  CompactMember("message", <<S("test-message")>>)>>)
ValidBody  == StrBody(ValidText)
\* the body of the fixture's second record: Test message.
SecondBody == StrBody(<<Junk("Test"), W, Junk("message.")>>)
NoEmailBody ==
    StrBody(ObjectText(<<Member("name", <<S("test")>>),
                         Member("message", <<S("test")>>)>>))
NoNameBody ==
    StrBody(ObjectText(<<Member("email", <<S("test@gmail.com")>>),
                         Member("message", <<S("test")>>)>>))
NoMessageBody ==
    StrBody(ObjectText(<<Member("name", <<S("test")>>),
                         Member("email", <<S("test@gmail.com")>>)>>))
NumNameBody ==
    StrBody(ObjectText(<<Member("name", <<N(123456)>>),
                         Member("message", <<S("test")>>),
                         Member("email", <<S("test@gmail.com")>>)>>))
NullEmailBody ==
    StrBody(ObjectText(<<Member("name", <<S("test")>>), Member("email", <<Null>>),
                         Member("message", <<S("test")>>)>>))
DictMessageBody ==
    StrBody(ObjectText(<<Member("name", <<S("test")>>),
                         Member("email", <<S("test@gmail.com")>>),
                         Member("message", <<P("{"), P("}")>>)>>))
ListNameNoEmailBody ==
    StrBody(ObjectText(<<Member("name", <<P("["), P("]")>>),
                         Member("message", <<S("test")>>)>>))
EmptyEmailBody ==
    StrBody(ObjectText(<<Member("name", <<S("test")>>), Member("email", <<S("")>>),
                         Member("message", <<S("test-message")>>)>>))
EmptyObjectBody == StrBody(<<P("{"), P("}")>>)
NumberBody      == StrBody(<<N(42)>>)
ListBody        == StrBody(<<P("["), S("test"), P("]")>>)
\* the valid payload with white space around it and inside it
SpacedBody ==
    StrBody(<<W, P("{"), W>>
            \o JoinMembers(<<Member("name", <<S("test-name")>>),
                             Member("email", <<S("test@gmail.com")>>),
                             Member("message", <<S("test-message"), W>>)>>,
                           <<W, P(","), W>>)
            \o <<P("}"), W>>)
\* the valid payload as bytes
ValidBytesBody  == BytesBody(ValidText)

\* texts that are not well-formed:  {"name": "test"   {"a": 1,}   {} {}
\* {"a" 1}   {"a": }   {1: 2}   [1 2]   [1, ]   and the empty text
TruncatedBody     == StrBody(<<P("{"), S("name"), P(":"), W, S("test")>>)
TrailingCommaBody == StrBody(<<P("{"), S("a"), P(":"), W, N(1), P(","), P("}")>>)
ExtraDataBody     == StrBody(<<P("{"), P("}"), W, P("{"), P("}")>>)
NoColonBody       == StrBody(<<P("{"), S("a"), W, N(1), P("}")>>)
NoValueBody       == StrBody(<<P("{"), S("a"), P(":"), W, P("}")>>)
NumberKeyBody     == StrBody(<<P("{"), N(1), P(":"), W, N(2), P("}")>>)
NoCommaListBody   == StrBody(<<P("["), N(1), W, N(2), P("]")>>)
OpenListBody      == StrBody(<<P("["), N(1), P(","), W, P("]")>>)
EmptyTextBody     == StrBody(<<>>)

MalformedBodies ==
    {SecondBody, TruncatedBody, TrailingCommaBody, ExtraDataBody, NoColonBody,
     NoValueBody, NumberKeyBody, NoCommaListBody, OpenListBody, EmptyTextBody}

Bodies ==
    {ValidBody, SpacedBody, ValidBytesBody, NoEmailBody, NoNameBody,
     NoMessageBody, NumNameBody, NullEmailBody, DictMessageBody,
     ListNameNoEmailBody, EmptyEmailBody, EmptyObjectBody, NumberBody, ListBody}
    \cup MalformedBodies
    \cup {OtherBody(t) : t \in {"NoneType", "dict", "list", "int"}}

Events ==
    {QueueEvent(<<Record(b)>>) : b \in Bodies}
    \cup {QueueEvent(<<Record(b), Record(SecondBody)>>) :
            b \in {ValidBody, NoEmailBody, NumNameBody, EmptyEmailBody, SecondBody}}
    \cup {QueueEvent(<<Record(b), Record(ValidBody)>>) : b \in {SecondBody, NoEmailBody}}
    \cup {QueueEvent(<<Record(ValidBody), RecordNoBody>>),
          QueueEvent(<<RecordNoBody>>), QueueEvent(<<>>), EmptyEvent}
    \cup {DirectEvent(b) : b \in {ValidBody, SecondBody, NoEmailBody}}
    \cup {BothEvent(SecondBody, <<Record(ValidBody)>>),
          BothEvent(ValidBody, <<Record(NoEmailBody)>>)}

\* The events of the invocations that run concurrently
ConcurrentEvents ==
    {QueueEvent(<<Record(ValidBody)>>),
     QueueEvent(<<Record(ValidBody), Record(SecondBody)>>),
     QueueEvent(<<Record(NoEmailBody), Record(ValidBody)>>),
     QueueEvent(<<Record(NoEmailBody)>>),
     QueueEvent(<<Record(SecondBody)>>)}

(***************************************************************************)
(* The calls the handler makes on the logger, the tracer and the metrics   *)
(* object, and the ones of them that raise in an invocation's environment. *)
(***************************************************************************)
\* a call that returned, and a call that raised
Call(op, arg)   == [op |-> op, arg |-> arg, ok |-> TRUE]
Raised(op, arg) == [op |-> op, arg |-> arg, ok |-> FALSE]

\* the call sites that can be made to raise
AnnotateSuccess  == "put_annotation SUCCESS"            \* src/app.py:40
CountWritten     == "add_metric MessagesWritten"        \* src/app.py:41
LogException     == "logger.exception"                  \* src/app.py:44
AnnotateError    == "put_annotation ERROR"              \* src/app.py:45
CountNotWritten  == "add_metric MessagesNotWritten"     \* src/app.py:46

ExceptSites == {LogException, AnnotateError, CountNotWritten}

Site(op, arg) == IF op = "logger.exception" THEN op ELSE op \o " " \o arg

\* what a raising call raises
FaultOf(op) ==
    CASE op = "put_annotation" ->
           Exc("SegmentNotFoundException", "cannot find the current segment", {})
      [] op = "add_metric" ->
           Exc("SchemaValidationError", "Must contain a metric namespace.", {})
      [] OTHER ->
           Exc("OSError", "[Errno 28] No space left on device", {})

\* The sets of raising call sites: none, each site alone, the tracer raising
\* on every call and the metrics object raising on every call.
FaultSets ==
    {{}, {AnnotateSuccess}, {CountWritten}, {LogException}, {AnnotateError},
     {CountNotWritten}, {AnnotateSuccess, AnnotateError},
     {CountWritten, CountNotWritten}}

ConcurrentFaultSets == {{}, {CountWritten}}

\* The environment of one invocation: os.environ's TABLE_NAME (None when
\* unset), whether the backend answers, and the call sites that raise.
Environment(table_name, reachable, faults) ==
    [table_name |-> table_name, reachable |-> reachable, faults |-> faults]

NoEnvironment == Environment(PyNone, FALSE, {})

\* the table name and the backend's state
Table(table_name, reachable) == [table_name |-> table_name, reachable |-> reachable]

Tables ==
    {Table(PyStr(ExistingTable), TRUE), Table(PyStr("wrong-test-table-name"), TRUE),
     Table(PyNone, TRUE), Table(PyStr(ExistingTable), FALSE)}

ConcurrentTables ==
    {Table(PyStr(ExistingTable), TRUE), Table(PyStr("wrong-test-table-name"), TRUE)}

\* The token generated once, when the module is loaded, and used for every row.
uuid4_Once(calls) == "uuid-" \o ToString(1)

\* str(uuid.uuid4()): a token no earlier call returned; `calls` counts the
\* calls made so far
uuid4(calls) == "uuid-" \o ToString(calls + 1)

(***************************************************************************)
(* The handler.                                                            *)
(***************************************************************************)
NoOutcome == [kind |-> "none", value |-> "", text |-> "", cause |-> NoExc]

\* return                                                      (src/app.py:42)
ReturnNone == [kind |-> "return", value |-> "None", text |-> "", cause |-> NoExc]

\* raise RuntimeError(e): str() of the RuntimeError is str(e)  (src/app.py:47)
RaiseRuntimeError(e) ==
    [kind |-> "raise", value |-> "RuntimeError", text |-> e.msg, cause |-> e]

\* exception x, raised by a call of the except block while e was handled,
\* leaves lambda_handler
RaiseInExcept(x, e) ==
    [kind |-> "raise", value |-> x.type, text |-> x.msg, cause |-> e]

\* the calls `calls` made in order after trace tr, up to and including the
\* first one that raises
RECURSIVE RunCalls(_, _, _)
RunCalls(tr, calls, faults) ==
    IF Len(calls) = 0 THEN [ok |-> TRUE, trace |-> tr, exc |-> NoExc]
    ELSE LET c == calls[1] IN
         IF Site(c.op, c.arg) \in faults
         THEN [ok |-> FALSE, trace |-> Append(tr, Raised(c.op, c.arg)),
               exc |-> FaultOf(c.op)]
         ELSE RunCalls(Append(tr, c), Tail(calls), faults)

\* except Exception as e: logger.exception(str(e)), the ERROR annotation,
\* the MessagesNotWritten metric, raise RuntimeError(e).  A call that raises
\* ends the block: its exception leaves lambda_handler. (src/app.py:43-47)
ExceptBlock(tr, e, faults) ==
    LET r == RunCalls(tr, <<Call("logger.exception", e.msg),
                            Call("put_annotation", "ERROR"),
                            Call("add_metric", "MessagesNotWritten")>>, faults)
    IN  IF r.ok
        THEN [trace |-> Append(r.trace, Call("raise", "RuntimeError")),
              outcome |-> RaiseRuntimeError(e)]
        ELSE [trace |-> Append(r.trace, Call("raise", r.exc.type)),
              outcome |-> RaiseInExcept(r.exc, e)]

\* what follows a put_item that returned: the log line of
\* write_message_to_table, then the annotation, the metric and the return
\* of lambda_handler; a call that raises is caught by the except block
\*                                                     (src/app.py:28-29, 40-47)
AfterWrite(tr, table_name, faults) ==
    LET logged == Append(tr, Call("logger.info",
                                  "Message written to Table: " \o table_name.v))
        r == RunCalls(logged, <<Call("put_annotation", "SUCCESS"),
                                Call("add_metric", "MessagesWritten")>>, faults)
    IN  IF r.ok
        THEN [trace |-> Append(r.trace, Call("return", "None")),
              outcome |-> ReturnNone]
        ELSE ExceptBlock(r.trace, r.exc, faults)

VARIABLES pc, event, env, start, read, item, trace, outcome, puts, delta,
          runs, store, now, drawn, response

vars == <<pc, event, env, start, read, item, trace, outcome, puts, delta,
          runs, store, now, drawn, response>>

Init ==
    /\ pc = [i \in Invocations |-> "idle"]
    /\ event = [i \in Invocations |-> EmptyEvent]
    /\ env = [i \in Invocations |-> NoEnvironment]
    /\ start = [i \in Invocations |-> 0]
    /\ read = [i \in Invocations |-> 0]
    /\ item = [i \in Invocations |-> NoItem]
    /\ trace = [i \in Invocations |-> <<>>]
    /\ outcome = [i \in Invocations |-> NoOutcome]
    /\ puts = [i \in Invocations |-> 0]
    /\ delta = [i \in Invocations |-> 0]
    /\ runs = [i \in Invocations |-> 0]
    /\ store = {}
    /\ now = 0
    /\ drawn = 0
    /\ response = [i \in Invocations |-> NoExc]

\* The wall clock advances.
Tick ==
    /\ now < MaxClock
    /\ now' = now + 1
    /\ UNCHANGED <<pc, event, env, start, read, item, trace, outcome, puts,
                   delta, runs, store, drawn, response>>

\* lambda_handler is entered in execution context i, for the first time or
\* after an earlier invocation ended: logger.info("Received event").  The
\* call sites that raise in this invocation are fixed here.     (src/app.py:35)
Invoke(i, events, faultsets, limit) ==
    /\ pc[i] \in {"idle", "done"}
    /\ runs[i] < limit
    /\ \E ev \in events : event' = [event EXCEPT ![i] = ev]
    /\ runs' = [runs EXCEPT ![i] = @ + 1]
    /\ start' = [start EXCEPT ![i] = now]
    /\ trace' = [trace EXCEPT ![i] = <<Call("logger.info", "Received event")>>]
    /\ pc' = [pc EXCEPT ![i] = "running"]
    /\ \E f \in faultsets :
          env' = [env EXCEPT ![i] = Environment(PyNone, FALSE, f)]
    /\ read' = [read EXCEPT ![i] = 0]
    /\ item' = [item EXCEPT ![i] = NoItem]
    /\ outcome' = [outcome EXCEPT ![i] = NoOutcome]
    /\ puts' = [puts EXCEPT ![i] = 0]
    /\ delta' = [delta EXCEPT ![i] = 0]
    /\ response' = [response EXCEPT ![i] = NoExc]
    /\ UNCHANGED <<store, now, drawn>>

\* exception e is caught: the invocation ends in the except block, with
\* RuntimeError(e) or with the exception of a call of the block that raised
Fail(i, tr, e) ==
    /\ trace' = [trace EXCEPT ![i] = ExceptBlock(tr, e, env[i].faults).trace]
    /\ outcome' = [outcome EXCEPT ![i] = ExceptBlock(tr, e, env[i].faults).outcome]
    /\ pc' = [pc EXCEPT ![i] = "done"]

\* json.loads(event['Records'][0]['body'])                  (src/app.py:37-38)
Decode(ev) ==
    LET b == GetBody(ev) IN
    IF ~b.ok THEN [ok |-> FALSE, v |-> PyNone, exc |-> b.exc]
    ELSE json_loads(b.body)

\* event['Records'][0]['body'] or json.loads raises         (src/app.py:37-38)
DecodeFails(i) ==
    /\ pc[i] = "running"
    /\ ~Decode(event[i]).ok
    /\ Fail(i, trace[i], Decode(event[i]).exc)
    /\ UNCHANGED <<event, env, start, read, item, puts, delta, runs, store,
                   now, drawn, response>>

\* the body parses; write_message_to_table reads TABLE_NAME and builds the
\* Item, or a subscript of the message raises after uuid4 was called
\*                                                   (src/app.py:37-39, 16-26)
Build(i, tables) ==
    /\ pc[i] = "running"
    /\ Decode(event[i]).ok
    /\ LET built == BuildItem(Decode(event[i]).v, uuid4(drawn), now) IN
         \/ /\ ~built.ok
            /\ Fail(i, trace[i], built.exc)
            /\ UNCHANGED <<item, read, env>>
         \/ /\ built.ok
            /\ item' = [item EXCEPT ![i] = built.item]
            /\ read' = [read EXCEPT ![i] = now]
            /\ \E t \in tables :
                  env' = [env EXCEPT ![i] = Environment(t.table_name, t.reachable,
                                                        env[i].faults)]
            /\ pc' = [pc EXCEPT ![i] = "put"]
            /\ UNCHANGED <<trace, outcome>>
    /\ drawn' = drawn + 1
    /\ UNCHANGED <<event, start, puts, delta, runs, store, now, response>>

\* client.put_item(TableName, Item): the client checks the parameters and
\* the table handles the request, inserting the row or refusing it.  The
\* handler has the answer in hand and has not gone on yet.      (src/app.py:18)
PutItem(i) ==
    /\ pc[i] = "put"
    /\ LET r == put_item(env[i].table_name, item[i], env[i].reachable, store) IN
         /\ puts' = [puts EXCEPT ![i] = @ + 1]
         /\ store' = r.rows
         /\ delta' = [delta EXCEPT ![i] = Cardinality(r.rows) - Cardinality(store)]
         /\ response' = [response EXCEPT ![i] = r.exc]
         /\ trace' = [trace EXCEPT ![i] =
                         Append(@, Call("put_item", IF r.ok THEN "ok" ELSE r.exc.type))]
    /\ pc' = [pc EXCEPT ![i] = "answered"]
    /\ UNCHANGED <<event, env, start, read, item, outcome, runs, now, drawn>>

\* the handler goes on after put_item: the exception it raised is caught by
\* the except block, or the log line, the annotation and the metric follow
\* and the handler returns                                  (src/app.py:28-47)
AfterPutItem(i) ==
    /\ pc[i] = "answered"
    /\ \/ /\ response[i] # NoExc
          /\ Fail(i, trace[i], response[i])
       \/ /\ response[i] = NoExc
          /\ LET a == AfterWrite(trace[i], env[i].table_name, env[i].faults) IN
               /\ trace' = [trace EXCEPT ![i] = a.trace]
               /\ outcome' = [outcome EXCEPT ![i] = a.outcome]
          /\ pc' = [pc EXCEPT ![i] = "done"]
    /\ UNCHANGED <<event, env, start, read, item, puts, delta, runs, store, now,
                   drawn, response>>

\* One execution context, invoked again and again with any event.
Next ==
    \/ Tick
    \/ Invoke(1, Events, FaultSets, MaxRuns)
    \/ DecodeFails(1)
    \/ Build(1, Tables)
    \/ PutItem(1)
    \/ AfterPutItem(1)

Spec == Init /\ [][Next]_vars

\* Several execution contexts, each invoked once, running concurrently; the
\* clock is held still, the interleaving of the invocations is what varies.
NextConcurrent ==
    \/ \E i \in Invocations : Invoke(i, ConcurrentEvents, ConcurrentFaultSets, 1)
    \/ \E i \in Invocations : DecodeFails(i)
    \/ \E i \in Invocations : Build(i, ConcurrentTables)
    \/ \E i \in Invocations : PutItem(i)
    \/ \E i \in Invocations : AfterPutItem(i)

SpecConcurrent == Init /\ [][NextConcurrent]_vars

(***************************************************************************)
(* Vocabulary of the properties.                                           *)
(***************************************************************************)
Done(i)      == pc[i] = "done"
Succeeded(i) == Done(i) /\ outcome[i].kind = "return"
Failed(i)    == Done(i) /\ outcome[i].kind = "raise"

Has(tr, c)   == \E k \in 1 .. Len(tr) : tr[k] = c
Count(tr, c) == Cardinality({k \in 1 .. Len(tr) : tr[k] = c})

\* the invocation called op(arg), whether the call returned or raised
Made(tr, op, arg) == Has(tr, Call(op, arg)) \/ Has(tr, Raised(op, arg))

\* the invocation's put_item call inserted a row
Wrote(i) == Has(trace[i], Call("put_item", "ok"))

\* the rows of the table that carry the ID this invocation generated
RowsOf(i) == {r \in store : r.ID = item[i].ID.v}

\* the event is queue-style with a first record that carries a body
HasFirstBody(ev) == ev.hasRecords /\ Len(ev.Records) > 0 /\ ev.Records[1].hasBody

\* the parsed payload of the first record
FirstPayload(ev) == json_loads(ev.Records[1].body)

Fields == {"name", "email", "message"}

\* the payload is an object
IsObject(ev) == HasFirstBody(ev) /\ FirstPayload(ev).ok /\ FirstPayload(ev).v.t = "dict"

Absent(ev)     == {f \in Fields : f \notin DOMAIN FirstPayload(ev).v.v}
WrongTyped(ev) == {f \in Fields \ Absent(ev) : FirstPayload(ev).v.v[f].t # "str"}

\* the payload is an object whose three fields are strings
ValidPayload(ev) == IsObject(ev) /\ Absent(ev) = {} /\ WrongTyped(ev) = {}

Field(ev, f) == FirstPayload(ev).v.v[f].v

RetentionSeconds == 2592000

(***************************************************************************)
(* C1: when lambda_handler succeeds on a payload whose name, email and     *)
(* message are strings, the table holds exactly one row with the ID this   *)
(* invocation generated, and its Name, Email and Message are the           *)
(* payload's name, email and message, unchanged and not swapped.           *)
(***************************************************************************)
C1_FieldFidelity ==
    \A i \in Invocations :
        Succeeded(i) =>
            /\ ValidPayload(event[i])
            /\ Cardinality(RowsOf(i)) = 1
            /\ \A r \in RowsOf(i) :
                  /\ r.Name = Field(event[i], "name")
                  /\ r.Email = Field(event[i], "email")
                  /\ r.Message = Field(event[i], "message")

\* a successful invocation on the tests' payload, whose three values differ
C1_Witness ==
    \E i \in Invocations :
        /\ Succeeded(i)
        /\ HasFirstBody(event[i])
        /\ event[i].Records[1].body = ValidBody
        /\ \E r \in store : r.Name = "test-name" /\ r.Email = "test@gmail.com"
                            /\ r.Message = "test-message"

(***************************************************************************)
(* C2: the TTL of the row a successful invocation inserted is the whole    *)
(* seconds of a clock reading taken during the invocation plus exactly     *)
(* 2592000, and is not earlier than the second the invocation started in   *)
(* plus 2592000.  The TTL attribute sent is that number in decimal digits. *)
(***************************************************************************)
C2_Expiry ==
    \A i \in Invocations :
        Succeeded(i) =>
            /\ start[i] <= read[i]
            /\ read[i] <= now
            /\ \A r \in RowsOf(i) :
                  /\ r.TTL \in Nat
                  /\ r.TTL = (read[i] \div TicksPerSecond) + RetentionSeconds
                  /\ r.TTL >= (start[i] \div TicksPerSecond) + RetentionSeconds
            /\ RowsOf(i) # {}

\* a successful invocation that read the clock a second after it started
C2_Witness ==
    \E i \in Invocations :
        /\ Succeeded(i)
        /\ (read[i] \div TicksPerSecond) > (start[i] \div TicksPerSecond)
        /\ \E r \in RowsOf(i) : r.TTL = RetentionSeconds + 1

(***************************************************************************)
(* C3: an invocation changes the number of rows by exactly one if it       *)
(* signals success and by exactly zero if it signals failure, whatever     *)
(* step failed, and calls put_item at most once.                           *)
(***************************************************************************)
C3_RowsMatchSignal ==
    \A i \in Invocations :
        Done(i) =>
            /\ outcome[i].kind = "return" => delta[i] = 1
            /\ outcome[i].kind = "raise" => delta[i] = 0
            /\ puts[i] <= 1

(***************************************************************************)
(* C4: any two invocations whose put_item inserted a row carry different   *)
(* IDs, each insert adds a row, and the rows of both are in the table: no  *)
(* insert replaces the row of another invocation, also when the payloads   *)
(* are identical.                                                          *)
(***************************************************************************)
C4_DistinctIds ==
    /\ \A i, j \in Invocations :
          (i # j /\ Wrote(i) /\ Wrote(j)) =>
              /\ item[i].ID.v # item[j].ID.v
              /\ RowsOf(i) # {} /\ RowsOf(j) # {}
              /\ RowsOf(i) # RowsOf(j)
    /\ \A i \in Invocations : Wrote(i) => delta[i] = 1
    /\ Cardinality(store) = Cardinality({i \in Invocations : Wrote(i)})

\* two successful invocations with the same payload, and two rows
C4_Witness ==
    \E i, j \in Invocations :
        /\ i # j /\ Succeeded(i) /\ Succeeded(j)
        /\ FirstPayload(event[i]) = FirstPayload(event[j])
        /\ Cardinality(store) = 2

(***************************************************************************)
(* C5: two finished invocations of queue-style events whose first records  *)
(* carry the same body, in the same environment, end the same way (the     *)
(* same return or the same error, the same calls in the same order) and    *)
(* send the same Name, Email and Message, whatever the later records       *)
(* hold; every row of the table comes from the first record of an event.   *)
(***************************************************************************)
C5_FirstRecordOnly ==
    /\ \A i, j \in Invocations :
          (/\ Done(i) /\ Done(j)
           /\ event[i].hasRecords /\ event[j].hasRecords
           /\ Len(event[i].Records) > 0 /\ Len(event[j].Records) > 0
           /\ event[i].Records[1] = event[j].Records[1]
           /\ env[i] = env[j]) =>
              /\ outcome[i] = outcome[j]
              /\ trace[i] = trace[j]
              /\ item[i].Name = item[j].Name
              /\ item[i].Email = item[j].Email
              /\ item[i].Message = item[j].Message
    /\ \A r \in store : \E i \in Invocations :
          /\ Wrote(i)
          /\ ValidPayload(event[i])
          /\ r.Name = Field(event[i], "name")
          /\ r.Email = Field(event[i], "email")
          /\ r.Message = Field(event[i], "message")

\* one invocation with a single record and one with the same record followed
\* by a malformed one both succeeded
C5_Witness ==
    \E i, j \in Invocations :
        /\ Succeeded(i) /\ Succeeded(j)
        /\ Len(event[i].Records) = 1
        /\ Len(event[j].Records) = 2
        /\ event[i].Records[1] = event[j].Records[1]
        /\ ~json_loads(event[j].Records[2].body).ok

\* the response objects of the direct style, as the handler would return them
Response200 == "{'statusCode': 200, 'body': '{\"message\": \"success\"}'}"
Response500 == "{'statusCode': 500, 'body': '{\"message\": \"error\"}'}"

(***************************************************************************)
(* C6: on an event with a top-level body the handler uses that body as the *)
(* payload and returns a response object, statusCode 200 with body         *)
(* {"message": "success"} when the row is written and statusCode 500 with  *)
(* body {"message": "error"} on every error, and does not raise.           *)
(***************************************************************************)
C6_DirectStyleResponse ==
    \A i \in Invocations :
        (Done(i) /\ event[i].hasBody) =>
            /\ outcome[i].kind = "return"
            /\ outcome[i].value = (IF Wrote(i) THEN Response200 ELSE Response500)

(***************************************************************************)
(* C7: a finished invocation either returned None after its put_item       *)
(* inserted a row, or raised RuntimeError wrapping the cause, whatever the *)
(* error was: no Records key, an empty Records list, a first record        *)
(* without a body, a body that is not well-formed JSON, a field missing or *)
(* not a string, the table missing or unset, the backend not answering or  *)
(* rejecting the write.  No error is followed by a normal return.          *)
(***************************************************************************)
C7_ReturnOrRuntimeError ==
    \A i \in Invocations :
        Done(i) =>
            \/ /\ outcome[i] = ReturnNone
               /\ Wrote(i)
               /\ \A k \in 1 .. Len(trace[i]) : trace[i][k].op # "logger.exception"
               /\ trace[i][Len(trace[i])] = Call("return", "None")
            \/ /\ outcome[i].kind = "raise"
               /\ outcome[i].value = "RuntimeError"
               /\ outcome[i].cause.type # ""
               /\ trace[i][Len(trace[i])] = Call("raise", "RuntimeError")

\* the request parameter a payload field is sent as
ItemPath(f) ==
    CASE f = "name" -> "Item.Name.S"
      [] f = "email" -> "Item.Email.S"
      [] f = "message" -> "Item.Message.S"

(***************************************************************************)
(* C8: when the payload is an object in which one of name, email, message  *)
(* is absent or is not a string, the invocation fails, the error caught is *)
(* the KeyError of an absent field or the parameter validation error       *)
(* naming every wrong-typed field, that error's text is what is passed to  *)
(* logger.exception, and no row is written.                                *)
(***************************************************************************)
C8_InvalidFieldFails ==
    \A i \in Invocations :
        (/\ Done(i)
         /\ IsObject(event[i])
         /\ Absent(event[i]) \cup WrongTyped(event[i]) # {}) =>
            /\ Failed(i)
            /\ IF Absent(event[i]) # {}
               THEN /\ outcome[i].cause.type = "KeyError"
                    /\ \E f \in Absent(event[i]) : outcome[i].cause.names = {f}
                    /\ puts[i] = 0
               ELSE /\ outcome[i].cause.type = "ParamValidationError"
                    /\ \A f \in WrongTyped(event[i]) :
                          ItemPath(f) \in outcome[i].cause.names
            /\ Made(trace[i], "logger.exception", outcome[i].cause.msg)
            /\ \A k \in 1 .. Len(trace[i]) :
                  trace[i][k].op = "logger.exception" =>
                      trace[i][k].arg = outcome[i].cause.msg
            /\ delta[i] = 0
            /\ RowsOf(i) = {}

\* the tests' case: name is the number 123456
C8_Witness ==
    \E i \in Invocations :
        /\ Failed(i)
        /\ HasFirstBody(event[i])
        /\ event[i].Records[1].body = NumNameBody
        /\ outcome[i].cause.names = {"Item.Name.S"}
        /\ Has(trace[i], Call("logger.exception", outcome[i].cause.msg))

(***************************************************************************)
(* C9: when email is the empty string, name and message are strings, the   *)
(* table exists and the backend answers, the table rejects the insert      *)
(* because Email is a key attribute, RuntimeError is raised and no row is  *)
(* written.                                                                *)
(***************************************************************************)
C9_EmptyEmailRejected ==
    \A i \in Invocations :
        (/\ Done(i)
         /\ ValidPayload(event[i])
         /\ Field(event[i], "email") = ""
         /\ env[i].table_name = PyStr(ExistingTable)
         /\ env[i].reachable) =>
            /\ Failed(i)
            /\ outcome[i].value = "RuntimeError"
            /\ outcome[i].cause.type = "ValidationException"
            /\ "Email" \in outcome[i].cause.names
            /\ puts[i] = 1
            /\ delta[i] = 0
            /\ RowsOf(i) = {}

\* the first place of a call in a trace, and the order of two calls
Position(tr, c) == CHOOSE k \in 1 .. Len(tr) : tr[k] = c

Before(tr, a, b) == Has(tr, a) /\ Has(tr, b) /\ Position(tr, a) < Position(tr, b)

(***************************************************************************)
(* C10: in every finished invocation "Received event" is logged first;     *)
(* then either the row is inserted, "Message written to Table: <name>" is  *)
(* logged and MessagesWritten is incremented before the return, or the     *)
(* error is logged with its cause and MessagesNotWritten is incremented    *)
(* before the raise.  Exactly one of the two counters is incremented, and  *)
(* MessagesWritten is incremented if and only if the invocation inserted   *)
(* a row.                                                                  *)
(***************************************************************************)
C10_EventOrder ==
    \A i \in Invocations :
        Done(i) =>
            LET tr == trace[i]
                written == Call("add_metric", "MessagesWritten")
                notWritten == Call("add_metric", "MessagesNotWritten")
            IN
            /\ tr[1] = Call("logger.info", "Received event")
            /\ \/ /\ Before(tr, Call("put_item", "ok"),
                            Call("logger.info", "Message written to Table: "
                                                    \o env[i].table_name.v))
                  /\ Before(tr, Call("logger.info", "Message written to Table: "
                                                    \o env[i].table_name.v), written)
                  /\ Before(tr, written, Call("return", "None"))
               \/ /\ Before(tr, Call("logger.exception", outcome[i].cause.msg), notWritten)
                  /\ Before(tr, notWritten, Call("raise", "RuntimeError"))
            /\ Count(tr, written) + Count(tr, notWritten) = 1
            /\ Count(tr, written) = 1 <=> delta[i] = 1

====
